---- MODULE Spec2Model ----
(***************************************************************************)
(* Job-Scheduler-Microservice: the scheduler loop (internal/scheduler,     *)
(* type Scheduler), the robfig/cron engine it drives, and the job executor *)
(* (type JobExecutor) with its admission semaphore, run tracker and        *)
(* execution records.                                                      *)
(*                                                                         *)
(* Atomicity.  Every Scheduler method takes s.mu exclusively as its first  *)
(* statement, so a method that never blocks while holding the lock is one  *)
(* action.  Stop blocks twice while holding the lock and is three actions. *)
(* Start blocks inside loadActiveJobs when it calls AddJob.  ExecuteJob    *)
(* and the goroutine it spawns share the execution record without a lock:  *)
(* the Mark* methods of both sides interleave, as whole methods in the     *)
(* steps of each side and write by write in WaitTimeoutRacing (SpecExec).  *)
(***************************************************************************)
EXTENDS Integers, Sequences, FiniteSets, TLC

\* ---------------------------------------------------------------- bounds
\* capacity of the admission semaphore (MAX_CONCURRENT_JOBS)
MaxConcurrentJobs == 1
\* cap on the cron engine's entry counter
MaxEntryID == 3

\* the job identifiers explored
JobIds == {1, 2}

\* ------------------------------------------------------- job definitions
\* a cron expression is the sequence of its blank-separated fields; a field
\* is a number, "*", "*/n", a word that is no number, or a descriptor such
\* as "@daily"
Num(n) == [kind |-> "num", n |-> n]
Star == [kind |-> "star", n |-> 0]
StarStep(n) == [kind |-> "step", n |-> n]
Word == [kind |-> "word", n |-> 0]
Descriptor == [kind |-> "descriptor", n |-> 0]

GoodSchedule == <<Num(0), Num(9), Star, Star, Star>>
BadSchedule == <<Num(60), Star, Star, Star, Star>>
Schedules == {GoodSchedule, BadSchedule}

\* limits of the five fields: minute, hour, day-of-month, month, day-of-week
FieldMin == <<0, 0, 1, 1, 0>>
FieldMax == <<59, 23, 31, 12, 6>>

\* a bug: the upper limit of a field is not enforced
GetRange_NoMaximum(field, k) ==
    CASE field.kind = "num" -> field.n >= FieldMin[k]
      [] field.kind = "star" -> TRUE
      [] field.kind = "step" -> field.n # 0
      [] OTHER -> FALSE

\* the cron parser's getRange on field k: a number has to lie within the
\* limits of the field, "*" is the whole range, a step has to be positive,
\* and anything else is no number
GetRange(field, k) ==
    CASE field.kind = "num" -> field.n >= FieldMin[k] /\ field.n <= FieldMax[k]
      [] field.kind = "star" -> TRUE
      [] field.kind = "step" -> field.n # 0
      [] OTHER -> FALSE

\* cron.Parser.Parse: an empty expression fails; an expression that starts
\* with "@" is a descriptor, accepted only by a parser built with the
\* Descriptor option; otherwise the expression has to have exactly the five
\* fields the parser was built for, each a valid range
Parse(descriptors, schedule) ==
    IF schedule = <<>> THEN FALSE
    ELSE IF schedule[1].kind = "descriptor" THEN descriptors /\ Len(schedule) = 1
    ELSE /\ Len(schedule) = 5
         /\ \A k \in 1..5 : GetRange(schedule[k], k)

\* the standard parser used by cron.AddFunc: five fields, descriptors allowed
ParseStandard(schedule) == Parse(TRUE, schedule)

JobTypeEmailNotification == "email_notification"
JobTypeDataProcessing == "data_processing"
JobTypeReportGeneration == "report_generation"
JobTypeHealthCheck == "health_check"
UnregisteredJobType == "unregistered_type"

\* the executors map built by NewJobExecutor
executors ==
    {JobTypeEmailNotification, JobTypeDataProcessing,
     JobTypeReportGeneration, JobTypeHealthCheck}

\* the kinds the explored definitions carry
JobTypes == {JobTypeEmailNotification, UnregisteredJobType}

Job == [ID : JobIds, Schedule : Schedules, JobType : JobTypes, IsActive : BOOLEAN]

NoJob == [ID |-> 0, Schedule |-> <<>>, JobType |-> "", IsActive |-> FALSE]

\* a registration of the cron engine: def is the definition AddFunc was called
\* for, job is what the pointer captured by createJobFunction yields when the
\* callback runs (jobCopy := *job)
NoEntry == [def |-> NoJob, job |-> NoJob]

\* the definitions explored: job 1 is of a registered kind and its rule
\* parses; job 2 is of no registered kind and its rule may be malformed
KindOf(id) == IF id = 1 THEN JobTypeEmailNotification ELSE UnregisteredJobType
Definitions ==
    {j \in Job : j.JobType = KindOf(j.ID) /\ (j.ID = 1 => j.Schedule = GoodSchedule)}

\* rows the job store may hold for an identifier; GetActiveJobs selects the
\* active rows only, so a row that is not active reads as no row
StoreRows(id) == {NoJob} \cup {j \in Definitions : j.ID = id /\ j.IsActive}

\* ----------------------------------------------------- execution records
ExecutionStatusPending == "pending"
ExecutionStatusRunning == "running"
ExecutionStatusCompleted == "completed"
ExecutionStatusFailed == "failed"
ExecutionStatusCancelled == "cancelled"

TerminalStatuses ==
    {ExecutionStatusCompleted, ExecutionStatusFailed, ExecutionStatusCancelled}

\* no record: before ExecuteJob builds one, or no row in the execution store
NoExecution ==
    [Status |-> "none", StartedAt |-> FALSE, CompletedAt |-> FALSE,
     ErrorMessage |-> "", ExecutionDuration |-> FALSE]

\* &models.JobExecution{ID, JobID, Status: pending}
NewExecution ==
    [Status |-> ExecutionStatusPending, StartedAt |-> FALSE, CompletedAt |-> FALSE,
     ErrorMessage |-> "", ExecutionDuration |-> FALSE]

MarkAsRunning(je) ==
    [je EXCEPT !.Status = ExecutionStatusRunning, !.StartedAt = TRUE]

MarkAsCompleted(je) ==
    [je EXCEPT !.Status = ExecutionStatusCompleted,
               !.CompletedAt = TRUE,
               !.ExecutionDuration = IF je.StartedAt THEN TRUE ELSE je.ExecutionDuration]

MarkAsFailed(je, errorMsg) ==
    [je EXCEPT !.Status = ExecutionStatusFailed,
               !.CompletedAt = TRUE,
               !.ErrorMessage = errorMsg,
               !.ExecutionDuration = IF je.StartedAt THEN TRUE ELSE je.ExecutionDuration]

IsCompleted(je) == je.Status \in TerminalStatuses

\* the records two Mark methods may leave when they run at the same time on
\* the record je, which no lock protects: t is what the one would leave on
\* its own and g what the other would.  Both write Status, the later write
\* stays; a field one of them writes holds that value, a field both write
\* holds either; and the method that computes the duration finds StartedAt
\* set or not according to whether the other has written it yet
RacingMarks(je, t, g) ==
    {[Status |-> status,
      StartedAt |-> t.StartedAt \/ g.StartedAt,
      CompletedAt |-> t.CompletedAt \/ g.CompletedAt,
      ErrorMessage |-> message,
      ExecutionDuration |-> duration] :
        status \in {t.Status, g.Status},
        message \in (IF g.ErrorMessage = je.ErrorMessage
                     THEN {t.ErrorMessage} ELSE {t.ErrorMessage, g.ErrorMessage}),
        duration \in {t.ExecutionDuration \/ g.ExecutionDuration}
                     \cup (IF g.StartedAt /\ ~je.StartedAt THEN {TRUE} ELSE {})}

\* ------------------------------------------------------- execution store
\* RowsAffected of the repository's base handle r.db, which no statement
\* of the repository ever runs on: every statement runs on a derived handle
RowsAffectedOfBaseHandle == 0

ErrNil == "nil"
ErrUpdateFailed == "failed to update job execution"
ErrNotFound == "job execution not found"

\* jobExecutionRepository.Update: the error it returns when the write itself
\* succeeded (writeOk) or failed
RepoUpdate(writeOk) ==
    IF ~writeOk THEN ErrUpdateFailed
    ELSE IF RowsAffectedOfBaseHandle = 0 THEN ErrNotFound
    ELSE ErrNil

\* errors returned by ExecuteJob
ErrLimit == "maximum concurrent jobs reached"
ErrCreate == "failed to create execution record"
ErrTimeout == "job execution timed out"
ErrNoExecutor == "no executor found for job type"
ErrPanicked == "job execution panicked"
ErrCapability == "capability error"
ErrContext == "context deadline exceeded"
ErrUpdateStatus == "failed to update execution status"

\* the error text of an outcome of the capability's Execute
CapabilityErr(outcome) ==
    CASE outcome = "ok" -> ErrNil
      [] outcome = "error" -> ErrCapability
      [] outcome = "panic" -> ErrPanicked


\* ------------------------------------------------------------------ state
VARIABLES
    isRunning,      \* Scheduler.isRunning
    mu,             \* Scheduler.mu: "free" or the method holding it while blocked
    stopPc,         \* where a blocked Stop stands: "idle", "wait_jobs", "wait_wg"
    ctxCancelled,   \* Scheduler.ctx has been cancelled
    wg,             \* Scheduler.wg counter
    scheduledJobs,  \* Scheduler.scheduledJobs: job id -> cron entry id (0: no key)
    cronEntries,    \* cron engine: entry id -> registration
    cronRunning,    \* cron engine is started
    nextID,         \* cron engine: last entry id handed out
    reloadPc,       \* reloadJobsPeriodically: "none", "select", "lock"
    fetched,        \* jobs returned to reloadJobs by GetActiveJobs
    store,          \* the job store: job id -> row
    lastCall,       \* the Scheduler method that returned last, and its error
    faults,         \* the execution store and the capabilities may fail
    svc,            \* the last call of the job service: request and response
    mutators,       \* AddJob, RemoveJob and reloadJobs, statement by statement
    listed,         \* the records of the list GetRunningJobs returned, as returned
    semaphore,      \* JobExecutor.semaphore: permits held
    runningJobs,    \* JobExecutor.runningJobs: keys
    calls           \* trigger callbacks (ExecuteJob calls), one record each

vars ==
    <<isRunning, mu, stopPc, ctxCancelled, wg, scheduledJobs, cronEntries,
      cronRunning, nextID, reloadPc, fetched, store, lastCall, faults, svc, mutators, listed,
      semaphore, runningJobs, calls>>

schedVars ==
    <<isRunning, mu, stopPc, ctxCancelled, wg, scheduledJobs, cronEntries,
      cronRunning, nextID, reloadPc, fetched, lastCall, faults, svc, mutators, listed>>

execVars == <<semaphore, runningJobs, calls>>

NoCall ==
    [pc |-> "none", gpc |-> "none", job |-> NoJob,
     execution |-> NoExecution, persisted |-> NoExecution,
     executionErr |-> ErrNil, errChan |-> "empty", ret |-> "pending",
     ctxDone |-> FALSE, executeCalls |-> 0, outcome |-> "none"]

\* what a Scheduler method returned
Returned(op, err) == [op |-> op, err |-> err]

\* the trigger firings explored: call records the engine may use
Calls == {1, 2}
\* the records in use when the scheduler's own operations are explored
SchedulerCalls == {1}

\* a call record left out of the exploration
UnusedCall == [NoCall EXCEPT !.pc = "unused"]

\* errors returned by the job service
ErrInvalidJobType == "invalid job type"
ErrInvalidCronSchedule == "invalid cron schedule"
ErrInvalidCronExpression == "invalid cron expression"
ErrCreateJob == "failed to create job"
ErrGetJobs == "failed to get jobs"

\* no call of the job service yet
NoSvc == [op |-> "none"]

\* a call of the job service: the method, its arguments (Schedule, JobType,
\* IsActive of a CreateJobRequest; page, limit), the error and the job
\* returned (NoJob: nil), the calls made to jobRepo.Create, the arguments
\* handed to jobRepo.GetAll (<<>>: no call), and the fields of the
\* JobListResponse returned (response FALSE: nil)
SvcCall(op) ==
    [op |-> op, Schedule |-> <<>>, JobType |-> "", IsActive |-> "nil",
     page |-> 0, limit |-> 0, err |-> ErrNil, job |-> NoJob, creates |-> 0,
     queried |-> <<>>, response |-> FALSE,
     TotalCount |-> 0, Page |-> 0, Limit |-> 0, TotalPages |-> 0]

\* GetRunningJobs has not returned a list yet
NoList == [op |-> "none"]

\* the three methods that change the trigger table, each run by a goroutine
\* of its own: the API's handlers (AddJob, RemoveJob) and the reload loop
Mutators == {"AddJob", "RemoveJob", "reloadJobs"}

\* the table and the engine of NewScheduler: no key, no entry
EmptyTable ==
    [scheduledJobs |-> [id \in JobIds |-> 0],
     cronEntries |-> [e \in 1..MaxEntryID |-> NoEntry],
     nextID |-> 0]

\* a method that is not being run
NoMutation == [pc |-> "idle"]

\* a run of a method, called and about to lock: the statement it stands at
\* ("lock": at s.mu.Lock(); "remove", "add": inside; "unlock": at its return,
\* the deferred s.mu.Unlock() still to run), its argument (job, id) or the
\* jobs it fetched, the jobs its second loop has still to visit (todo), the
\* build's meaning of &job, the table as s.mu.Lock() found it, and, of a run
\* of reloadJobs, the ids whose trigger RemoveJob has removed since the jobs
\* were fetched, with no AddJob for them since (removed)
Called(job, id, jobs) ==
    [pc |-> "lock", job |-> job, id |-> id, jobs |-> jobs, todo |-> jobs,
     build |-> "per-iteration", atLock |-> EmptyTable, removed |-> {}]

Init ==
    /\ isRunning = FALSE
    /\ mu = "free"
    /\ stopPc = "idle"
    /\ ctxCancelled = FALSE
    /\ wg = 0
    /\ scheduledJobs = [id \in JobIds |-> 0]
    /\ cronEntries = [e \in 1..MaxEntryID |-> NoEntry]
    /\ cronRunning = FALSE
    /\ nextID = 0
    /\ reloadPc = "none"
    /\ fetched = {}
    /\ store = [id \in JobIds |-> NoJob]
    /\ lastCall = Returned("none", ErrNil)
    /\ faults = FALSE
    /\ svc = NoSvc
    /\ mutators = [n \in Mutators |-> NoMutation]
    /\ listed = NoList
    /\ semaphore = 0
    /\ runningJobs = {}
    /\ calls = [i \in Calls |-> IF i \in SchedulerCalls THEN NoCall ELSE UnusedCall]

\* ------------------------------------------------------------- job store
\* GetActiveJobs: the rows with is_active = true
GetActiveJobs == {store[id] : id \in {k \in JobIds : store[k] # NoJob /\ store[k].IsActive}}

\* the job store is owned by the API: a row is created, updated or deleted
StoreChange ==
    \E id \in JobIds : \E row \in StoreRows(id) :
        /\ row # store[id]
        /\ store' = [store EXCEPT ![id] = row]
        /\ UNCHANGED <<schedVars, execVars>>

\* ------------------------------------------- trigger table and cron engine
\* the table and the engine's registrations, as one value
Table == [scheduledJobs |-> scheduledJobs, cronEntries |-> cronEntries, nextID |-> nextID]

\* a bug: the entry already registered for the id is left alone
RemoveExisting_Skipped(t, id) == t

\* a bug: the key is deleted from the table and the engine's entry stays
RemoveExisting_TableOnly(t, id) == [t EXCEPT !.scheduledJobs[id] = 0]

\* s.cron.Remove(entryID); delete(s.scheduledJobs, id)  -- when the key exists
RemoveExisting(t, id) ==
    IF t.scheduledJobs[id] # 0
    THEN [t EXCEPT !.cronEntries[t.scheduledJobs[id]] = NoEntry,
                   !.scheduledJobs[id] = 0]
    ELSE t

\* a bug: the entry is registered whether or not the rule parses
AddFunc_IgnoresParse(t, job, target) ==
    [t EXCEPT !.nextID = t.nextID + 1,
              !.cronEntries[t.nextID + 1] = [def |-> job, job |-> target],
              !.scheduledJobs[job.ID] = t.nextID + 1]

\* jobFunc := s.createJobFunction(ptr); entryID, err := s.cron.AddFunc(
\* job.Schedule, jobFunc); on success the table stores the new entry id.
\* target is the job the pointer handed to createJobFunction refers to once
\* the caller is done with it
AddFunc(t, job, target) ==
    IF ParseStandard(job.Schedule)
    THEN [t EXCEPT !.nextID = t.nextID + 1,
                   !.cronEntries[t.nextID + 1] = [def |-> job, job |-> target],
                   !.scheduledJobs[job.ID] = t.nextID + 1]
    ELSE t

\* a bug: the new entry is added next to the one the identifier already has
Reschedule_NoRemove(t, job, target) == AddFunc(t, job, target)

\* the body of AddJob for an active job: remove the existing entry, then add
Reschedule(t, job, target) == AddFunc(RemoveExisting(t, job.ID), job, target)

ErrAlreadyRunning == "scheduler is already running"
ErrLoadActiveJobs == "failed to load active jobs"
ErrAddJob == "failed to add job to scheduler"

SetTable(t) ==
    /\ scheduledJobs' = t.scheduledJobs
    /\ cronEntries' = t.cronEntries
    /\ nextID' = t.nextID

\* a bug: AddJob does not look at job.IsActive
SkipsInactive_Never(job) == FALSE

\* the IsActive guard at the head of AddJob
SkipsInactive(job) == ~job.IsActive

\* Scheduler.AddJob(job), called through the API with a job of the caller
AddJobOf(job) ==
    /\ mu = "free"
    /\ nextID < MaxEntryID
    /\ IF SkipsInactive(job)
       THEN /\ lastCall' = Returned("AddJob", ErrNil)
            /\ UNCHANGED <<scheduledJobs, cronEntries, nextID>>
       ELSE /\ SetTable(Reschedule(Table, job, job))
            /\ lastCall' = Returned("AddJob", IF ParseStandard(job.Schedule) THEN ErrNil ELSE ErrAddJob)
    /\ UNCHANGED <<isRunning, mu, stopPc, ctxCancelled, wg, cronRunning,
                   reloadPc, fetched, store, faults, svc, mutators, listed, execVars>>

AddJob == \E job \in Definitions : AddJobOf(job)

\* Scheduler.RemoveJob(jobID)
RemoveJobOf(id) ==
    /\ mu = "free"
    /\ SetTable(RemoveExisting(Table, id))
    /\ UNCHANGED lastCall
    /\ UNCHANGED <<isRunning, mu, stopPc, ctxCancelled, wg, cronRunning,
                   reloadPc, fetched, store, faults, svc, mutators, listed, execVars>>

RemoveJob == \E id \in JobIds : RemoveJobOf(id)

\* a bug: Start does not look at isRunning
StartRefused_Never == FALSE

\* the isRunning guard at the head of Start
StartRefused == isRunning

\* a bug: s.cron.Start() comes before s.loadActiveJobs()
EngineAfterLoadError_Started == TRUE

\* Start returns the error of loadActiveJobs before it reaches s.cron.Start()
EngineAfterLoadError == cronRunning

\* Scheduler.Start.  loadActiveJobs calls s.AddJob for every job returned,
\* and AddJob begins with s.mu.Lock() while Start still holds s.mu: with one
\* job or more the call never gets past that Lock
Start ==
    /\ mu = "free"
    /\ IF StartRefused
       THEN /\ lastCall' = Returned("Start", ErrAlreadyRunning)
            /\ UNCHANGED <<isRunning, mu, wg, cronRunning, reloadPc>>
       ELSE \E loadOk \in BOOLEAN :
              IF ~loadOk
              THEN /\ lastCall' = Returned("Start", ErrLoadActiveJobs)
                   /\ cronRunning' = EngineAfterLoadError
                   /\ UNCHANGED <<isRunning, mu, wg, reloadPc>>
              ELSE IF GetActiveJobs # {}
              THEN /\ mu' = "Start"
                   /\ UNCHANGED <<isRunning, wg, cronRunning, reloadPc, lastCall>>
              ELSE /\ cronRunning' = TRUE
                   /\ isRunning' = TRUE
                   /\ wg' = wg + 1
                   /\ reloadPc' = "select"
                   /\ lastCall' = Returned("Start", ErrNil)
                   /\ UNCHANGED mu
    /\ UNCHANGED <<stopPc, ctxCancelled, scheduledJobs, cronEntries, nextID,
                   fetched, store, faults, svc, mutators, listed, execVars>>

\* a trigger callback is executing: started by the engine and not yet returned
CallbackRunning(i) == calls[i].pc \notin {"none", "unused", "done"}

\* a bug: Stop does not wait on the context cron.Stop() returns
CronJobsDone_NoWait == TRUE

\* <-ctx.Done() on the context of cron.Stop(): the engine's job waiter is at zero
CronJobsDone == \A i \in Calls : ~CallbackRunning(i)

\* s.wg.Wait()
WaitGroupDone == wg = 0

\* a bug: Stop does not look at isRunning
StopRefused_Never == FALSE

\* the isRunning guard at the head of Stop
StopRefused == ~isRunning

\* Scheduler.Stop up to its first wait: return nil when not running;
\* otherwise s.cancel() and s.cron.Stop()
Stop ==
    /\ mu = "free"
    /\ IF StopRefused
       THEN /\ lastCall' = Returned("Stop", ErrNil)
            /\ UNCHANGED <<mu, ctxCancelled, cronRunning, stopPc>>
       ELSE /\ mu' = "Stop"
            /\ ctxCancelled' = TRUE
            /\ cronRunning' = FALSE
            /\ stopPc' = "wait_jobs"
            /\ UNCHANGED lastCall
    /\ UNCHANGED <<isRunning, wg, scheduledJobs, cronEntries, nextID, reloadPc,
                   fetched, store, faults, svc, mutators, listed, execVars>>

\* Scheduler.Stop: <-ctx.Done()
StopJobsDone ==
    /\ stopPc = "wait_jobs"
    /\ CronJobsDone
    /\ stopPc' = "wait_wg"
    /\ UNCHANGED <<isRunning, mu, ctxCancelled, wg, scheduledJobs, cronEntries,
                   cronRunning, nextID, reloadPc, fetched, store, faults, svc, mutators, listed,
                   lastCall, execVars>>

\* Scheduler.Stop: s.wg.Wait(); s.isRunning = false; return nil
StopReturn ==
    /\ stopPc = "wait_wg"
    /\ WaitGroupDone
    /\ isRunning' = FALSE
    /\ stopPc' = "idle"
    /\ mu' = "free"
    /\ lastCall' = Returned("Stop", ErrNil)
    /\ UNCHANGED <<ctxCancelled, wg, scheduledJobs, cronEntries, cronRunning,
                   nextID, reloadPc, fetched, store, faults, svc, mutators, listed, execVars>>

\* reloadJobsPeriodically: case <-s.ctx.Done(): return   (defer s.wg.Done())
ReloadExit ==
    /\ reloadPc = "select"
    /\ ctxCancelled
    /\ reloadPc' = "none"
    /\ wg' = wg - 1
    /\ UNCHANGED <<isRunning, mu, stopPc, ctxCancelled, scheduledJobs, cronEntries,
                   cronRunning, nextID, fetched, store, faults, svc, mutators, listed,
                   lastCall, execVars>>

\* reloadJobsPeriodically: case <-ticker.C, and the head of reloadJobs up to
\* s.mu.Lock(): GetActiveJobs fails (the loop logs and selects again) or
\* returns the active rows
ReloadTick ==
    /\ reloadPc = "select"
    /\ \E loadOk \in BOOLEAN :
          IF loadOk
          THEN /\ fetched' = GetActiveJobs
               /\ reloadPc' = "lock"
          ELSE UNCHANGED <<fetched, reloadPc>>
    /\ UNCHANGED <<isRunning, mu, stopPc, ctxCancelled, wg, scheduledJobs,
                   cronEntries, cronRunning, nextID, store, faults, svc, mutators, listed,
                   lastCall, execVars>>

\* a bug: the triggers of jobs the store no longer returns are kept
RemoveMissing_None(t, ids, current) == t

\* reloadJobs, first loop: remove the triggers whose id is not in currentJobs
RECURSIVE RemoveMissing(_, _, _)
RemoveMissing(t, ids, current) ==
    IF ids = {} THEN t
    ELSE LET id == CHOOSE k \in ids : \A m \in ids : k <= m
         IN RemoveMissing(IF id \in current THEN t ELSE RemoveExisting(t, id),
                          ids \ {id}, current)

\* for _, job := range jobs { ... &job ... }: what &job refers to after the
\* loop.  With one variable per iteration (go 1.22 and later in go.mod) it is
\* the job of that iteration; with one variable for the whole loop (the Go
\* 1.18 and 1.21 the repository documents) it is the last job of the batch
LoopVarBuilds == {"per-iteration", "per-loop"}
LastOf(jobs) == CHOOSE j \in jobs : \A m \in jobs : m.ID <= j.ID
LoopVarTarget(build, job, jobs) == IF build = "per-loop" THEN LastOf(jobs) ELSE job

\* reloadJobs, second loop: remove and add again every active job; batch is
\* the whole slice the loop ranges over
RECURSIVE AddOrUpdate(_, _, _, _)
AddOrUpdate(t, jobs, batch, build) ==
    IF jobs = {} THEN t
    ELSE LET job == CHOOSE j \in jobs : \A m \in jobs : j.ID <= m.ID
         IN AddOrUpdate(IF job.IsActive
                        THEN Reschedule(t, job, LoopVarTarget(build, job, batch))
                        ELSE t,
                        jobs \ {job}, batch, build)

\* reloadJobs from s.mu.Lock() to its return
ReloadApply ==
    /\ reloadPc = "lock"
    /\ mu = "free"
    /\ nextID + Cardinality(fetched) <= MaxEntryID
    /\ \E build \in LoopVarBuilds :
          SetTable(AddOrUpdate(RemoveMissing(Table, JobIds, {j.ID : j \in fetched}),
                               fetched, fetched, build))
    /\ reloadPc' = "select"
    /\ fetched' = {}
    /\ UNCHANGED <<isRunning, mu, stopPc, ctxCancelled, wg, cronRunning, store,
                   faults, svc, mutators, listed,
                   lastCall, execVars>>

\* ------------------------------- the table's methods, statement by statement
\* a bug: s.mu.Lock() returns while another method holds s.mu
CanLock_Always(m) == TRUE

\* s.mu.Lock() returns when no method holds s.mu
CanLock(m) == m = "free"

\* entries the methods being run may still register
PendingAdds ==
    (IF mutators["AddJob"].pc # "idle" THEN 1 ELSE 0)
    + (IF mutators["reloadJobs"].pc # "idle"
       THEN Cardinality(mutators["reloadJobs"].todo) ELSE 0)

MutatorVarsUnchanged ==
    UNCHANGED <<isRunning, stopPc, ctxCancelled, wg, cronRunning, reloadPc, fetched,
                faults, svc, listed, execVars>>

\* a handler of the API calls AddJob(job)
AddJobCall ==
    /\ mutators["AddJob"].pc = "idle"
    /\ nextID + PendingAdds < MaxEntryID
    /\ \E job \in Definitions :
          mutators' = [mutators EXCEPT !["AddJob"] =
                          Called(job, 0, {})]
    /\ UNCHANGED <<mu, scheduledJobs, cronEntries, nextID, store, lastCall>>
    /\ MutatorVarsUnchanged

\* AddJob: s.mu.Lock(); defer s.mu.Unlock(); if !job.IsActive { return nil }
AddJobLock ==
    /\ mutators["AddJob"].pc = "lock"
    /\ CanLock(mu)
    /\ mu' = "AddJob"
    /\ mutators' = [mutators EXCEPT
                       !["AddJob"].atLock = Table,
                       !["AddJob"].pc = IF SkipsInactive(mutators["AddJob"].job)
                                        THEN "unlock" ELSE "remove"]
    /\ lastCall' = IF SkipsInactive(mutators["AddJob"].job)
                   THEN Returned("AddJob", ErrNil) ELSE lastCall
    /\ UNCHANGED <<scheduledJobs, cronEntries, nextID, store>>
    /\ MutatorVarsUnchanged

\* AddJob: if the key exists { s.cron.Remove(entryID); delete(...) }
AddJobRemove ==
    /\ mutators["AddJob"].pc = "remove"
    /\ SetTable(RemoveExisting(Table, mutators["AddJob"].job.ID))
    /\ mutators' = [mutators EXCEPT !["AddJob"].pc = "add"]
    /\ UNCHANGED <<mu, store, lastCall>>
    /\ MutatorVarsUnchanged

\* AddJob: s.cron.AddFunc(job.Schedule, jobFunc); on an error return it,
\* otherwise s.scheduledJobs[id] = entryID; return nil
AddJobAdd ==
    /\ mutators["AddJob"].pc = "add"
    /\ LET job == mutators["AddJob"].job
       IN /\ SetTable(AddFunc(Table, job, job))
          /\ lastCall' = Returned("AddJob", IF ParseStandard(job.Schedule)
                                            THEN ErrNil ELSE ErrAddJob)
    /\ mutators' = [mutators EXCEPT !["AddJob"].pc = "unlock"]
    /\ UNCHANGED <<mu, store>>
    /\ MutatorVarsUnchanged

\* a handler of the API calls RemoveJob(jobID)
RemoveJobCall ==
    /\ mutators["RemoveJob"].pc = "idle"
    /\ \E id \in JobIds :
          mutators' = [mutators EXCEPT !["RemoveJob"] =
                          Called(NoJob, id, {})]
    /\ UNCHANGED <<mu, scheduledJobs, cronEntries, nextID, store, lastCall>>
    /\ MutatorVarsUnchanged

\* RemoveJob: s.mu.Lock(); defer s.mu.Unlock()
RemoveJobLock ==
    /\ mutators["RemoveJob"].pc = "lock"
    /\ CanLock(mu)
    /\ mu' = "RemoveJob"
    /\ mutators' = [mutators EXCEPT !["RemoveJob"].atLock = Table,
                                    !["RemoveJob"].pc = "remove"]
    /\ UNCHANGED <<scheduledJobs, cronEntries, nextID, store, lastCall>>
    /\ MutatorVarsUnchanged

\* RemoveJob: if the key exists { s.cron.Remove(entryID); delete(...) }
RemoveJobRemove ==
    /\ mutators["RemoveJob"].pc = "remove"
    /\ SetTable(RemoveExisting(Table, mutators["RemoveJob"].id))
    /\ mutators' = [mutators EXCEPT !["RemoveJob"].pc = "unlock"]
    /\ UNCHANGED <<mu, store, lastCall>>
    /\ MutatorVarsUnchanged

\* reloadJobs: return fmt.Errorf("failed to get active jobs: %w", err), taken
\* before s.mu.Lock()
FetchFailed == [Called(NoJob, 0, {}) EXCEPT !.pc = "failed"]

\* a loop that returned on the error instead of logging it
AfterReloadError_Return == [Called(NoJob, 0, {}) EXCEPT !.pc = "returned"]

\* reloadJobsPeriodically after a failed reloadJobs: back at the select
AfterReloadError == NoMutation

\* reloadJobs: jobs, err := s.jobService.GetActiveJobs(), before s.mu.Lock();
\* on an error reloadJobs returns it
ReloadJobsFetch ==
    /\ mutators["reloadJobs"].pc = "idle"
    /\ nextID + PendingAdds + Cardinality(GetActiveJobs) <= MaxEntryID
    /\ \E loadOk \in BOOLEAN :
          IF loadOk
          THEN mutators' = [mutators EXCEPT !["reloadJobs"] =
                               Called(NoJob, 0, GetActiveJobs)]
          ELSE mutators' = [mutators EXCEPT !["reloadJobs"] = FetchFailed]
    /\ UNCHANGED <<mu, scheduledJobs, cronEntries, nextID, store, lastCall>>
    /\ MutatorVarsUnchanged

\* reloadJobsPeriodically: if err := s.reloadJobs(); err != nil { log } and the
\* for loop goes back to its select
ReloadJobsLogError ==
    /\ mutators["reloadJobs"].pc = "failed"
    /\ mutators' = [mutators EXCEPT !["reloadJobs"] = AfterReloadError]
    /\ UNCHANGED <<mu, scheduledJobs, cronEntries, nextID, store, lastCall>>
    /\ MutatorVarsUnchanged

\* reloadJobs: s.mu.Lock(); defer s.mu.Unlock(); currentJobs is built
ReloadJobsLock ==
    /\ mutators["reloadJobs"].pc = "lock"
    /\ CanLock(mu)
    /\ mu' = "reloadJobs"
    /\ \E build \in LoopVarBuilds :
          mutators' = [mutators EXCEPT !["reloadJobs"].atLock = Table,
                                       !["reloadJobs"].build = build,
                                       !["reloadJobs"].pc = "remove"]
    /\ UNCHANGED <<scheduledJobs, cronEntries, nextID, store, lastCall>>
    /\ MutatorVarsUnchanged

\* reloadJobs, first loop
ReloadJobsRemoveMissing ==
    /\ mutators["reloadJobs"].pc = "remove"
    /\ SetTable(RemoveMissing(Table, JobIds, {j.ID : j \in mutators["reloadJobs"].jobs}))
    /\ mutators' = [mutators EXCEPT
                       !["reloadJobs"].pc = IF mutators["reloadJobs"].jobs = {}
                                            THEN "unlock" ELSE "add"]
    /\ UNCHANGED <<mu, store, lastCall>>
    /\ MutatorVarsUnchanged

\* reloadJobs, second loop: one iteration
ReloadJobsAddNext ==
    /\ mutators["reloadJobs"].pc = "add"
    /\ LET r == mutators["reloadJobs"]
           job == CHOOSE j \in r.todo : \A m \in r.todo : j.ID <= m.ID
       IN /\ SetTable(AddOrUpdate(Table, {job}, r.jobs, r.build))
          /\ mutators' = [mutators EXCEPT
                             !["reloadJobs"].todo = r.todo \ {job},
                             !["reloadJobs"].pc = IF r.todo = {job}
                                                  THEN "unlock" ELSE "add"]
    /\ UNCHANGED <<mu, store, lastCall>>
    /\ MutatorVarsUnchanged

\* the deferred s.mu.Unlock() of the method n, and its return
Unlock(n) ==
    /\ mutators[n].pc = "unlock"
    /\ mu' = "free"
    /\ mutators' = [k \in Mutators |->
                       IF k = n THEN NoMutation
                       ELSE IF k = "reloadJobs" /\ mutators[k].pc # "idle"
                       THEN [mutators[k] EXCEPT !.removed =
                                IF n = "AddJob" THEN @ \ {mutators[n].job.ID}
                                ELSE IF mutators[n].atLock.scheduledJobs[mutators[n].id] # 0
                                THEN @ \cup {mutators[n].id}
                                ELSE @]
                       ELSE mutators[k]]
    /\ UNCHANGED <<scheduledJobs, cronEntries, nextID, store, lastCall>>
    /\ MutatorVarsUnchanged

\* ------------------------------------------------------------ job executor
\* outcomes of a write to the execution store, and of the capability's Execute
WriteOutcomes == IF faults THEN BOOLEAN ELSE {TRUE}
CapabilityOutcomes == IF faults THEN {"ok", "error", "panic"} ELSE {"ok"}

\* the lowest call record not yet used
FreeCall(i) == calls[i].pc = "none" /\ \A k \in Calls : k < i => calls[k].pc # "none"

\* the engine may start callbacks: it runs only between cron.Start and cron.Stop
EngineFires == cronRunning

\* the cron engine fires entry e: the callback built by createJobFunction
\* begins, copies the job it refers to and calls ExecuteJob
Fire ==
    \E e \in 1..MaxEntryID : \E i \in Calls :
        /\ EngineFires
        /\ cronEntries[e] # NoEntry
        /\ FreeCall(i)
        /\ calls' = [calls EXCEPT ![i] = [NoCall EXCEPT !.pc = "admit", !.job = cronEntries[e].job]]
        /\ UNCHANGED <<schedVars, store, semaphore, runningJobs>>

\* a bug: the capacity test is off by one
PermitFree_OffByOne == semaphore <= MaxConcurrentJobs

\* the send on the semaphore channel can proceed
PermitFree == semaphore < MaxConcurrentJobs

\* a bug: the record is built and saved before the permit is asked for
Rejected_AfterCreate(call) ==
    [call EXCEPT !.pc = "done", !.ret = ErrLimit,
                 !.execution = NewExecution, !.persisted = NewExecution]

\* ExecuteJob, the default branch of the select: log and return the error
Rejected(call) == [call EXCEPT !.pc = "done", !.ret = ErrLimit]

\* ExecuteJob: select { case e.semaphore <- struct{}{}: ... default: return error };
\* once admitted, build the pending record and save it with
\* jobExecutionRepo.Create (the record and its row are private to the call)
Admit(i) ==
    /\ calls[i].pc = "admit"
    /\ IF PermitFree
       THEN /\ semaphore' = semaphore + 1
            /\ \E createOk \in WriteOutcomes :
                  calls' = [calls EXCEPT
                              ![i].execution = NewExecution,
                              ![i].persisted = IF createOk THEN NewExecution ELSE @,
                              ![i].ret = IF createOk THEN @ ELSE ErrCreate,
                              ![i].pc = IF createOk THEN "track" ELSE "release"]
       ELSE /\ calls' = [calls EXCEPT ![i] = Rejected(calls[i])]
            /\ UNCHANGED semaphore
    /\ UNCHANGED <<schedVars, store, runningJobs>>

\* ExecuteJob: e.runningJobs[execution.ID] = execution; the context with the
\* deadline is made and the goroutine running executeJobWithContext is spawned
Track(i) ==
    /\ calls[i].pc = "track"
    /\ runningJobs' = runningJobs \cup {i}
    /\ calls' = [calls EXCEPT ![i].pc = "wait", ![i].gpc = "start"]
    /\ UNCHANGED <<schedVars, store, semaphore>>

\* ExecuteJob: case err := <-errChan: return err
WaitResult(i) ==
    /\ calls[i].pc = "wait"
    /\ calls[i].errChan # "empty"
    /\ calls' = [calls EXCEPT ![i].ret = calls[i].errChan, ![i].errChan = "empty",
                              ![i].pc = "untrack"]
    /\ UNCHANGED <<schedVars, store, semaphore, runningJobs>>

\* a bug: the context of the execution is made without a deadline
DeadlineExpires_Never == FALSE

\* ctx, cancel := context.WithTimeout(context.Background(), 10*time.Minute):
\* the deadline passes whatever the goroutine and the capability do
DeadlineExpires == TRUE

\* ExecuteJob: case <-ctx.Done(): the deadline expired;
\* execution.MarkAsFailed("Job execution timed out")
WaitTimeout(i) ==
    /\ calls[i].pc = "wait"
    /\ DeadlineExpires
    /\ calls' = [calls EXCEPT ![i].ctxDone = TRUE,
                              ![i].execution = MarkAsFailed(@, ErrTimeout),
                              ![i].pc = "timeout_update"]
    /\ UNCHANGED <<schedVars, store, semaphore, runningJobs>>

\* ExecuteJob: jobExecutionRepo.Update(execution) after the timeout; its error
\* is logged; return the timeout error
TimeoutUpdate(i) ==
    /\ calls[i].pc = "timeout_update"
    /\ \E writeOk \in WriteOutcomes :
          calls' = [calls EXCEPT
                      ![i].persisted = IF writeOk THEN calls[i].execution ELSE @,
                      ![i].ret = ErrTimeout,
                      ![i].pc = "untrack"]
    /\ UNCHANGED <<schedVars, store, semaphore, runningJobs>>

\* a bug: the tracker entry is not deleted on return
Untracked_Leak(running, i) == running

\* delete(e.runningJobs, execution.ID)
Untracked(running, i) == running \ {i}

\* ExecuteJob, deferred: cancel(); delete(e.runningJobs, execution.ID)
Untrack(i) ==
    /\ calls[i].pc = "untrack"
    /\ runningJobs' = Untracked(runningJobs, i)
    /\ calls' = [calls EXCEPT ![i].ctxDone = TRUE, ![i].pc = "release"]
    /\ UNCHANGED <<schedVars, store, semaphore>>

\* a bug: the callback takes the trigger of a job whose execution failed off
\* the table and the engine
CallbackReturns_Unschedule(t, id, err) == IF err = ErrNil THEN t ELSE RemoveExisting(t, id)

\* createJobFunction: if err := s.executor.ExecuteJob(&jobCopy); err != nil
\* { log }: the error is logged and the callback returns
CallbackReturns(t, id, err) == t

\* ExecuteJob, deferred: <-e.semaphore; ExecuteJob returns and the callback
\* logs the error
Release(i) ==
    /\ calls[i].pc = "release"
    /\ semaphore' = semaphore - 1
    /\ calls' = [calls EXCEPT ![i].pc = "done"]
    /\ SetTable(CallbackReturns(Table, calls[i].job.ID, calls[i].ret))
    /\ UNCHANGED <<isRunning, mu, stopPc, ctxCancelled, wg, cronRunning, reloadPc,
                   fetched, lastCall, faults, svc, mutators, listed, store, runningJobs>>

\* a bug: the goroutine returns when the running state cannot be saved
AfterRunningUpdate_Abort(updateErr) == IF updateErr = ErrNil THEN "dispatch" ELSE "finished"

\* executeJobWithContext: the error of the first Update is logged and the
\* function goes on to the executor lookup
AfterRunningUpdate(updateErr) == "dispatch"

\* executeJobWithContext: execution.MarkAsRunning(); Update (error logged)
GoMarkRunning(i) ==
    /\ calls[i].gpc = "start"
    /\ \E writeOk \in WriteOutcomes :
          calls' = [calls EXCEPT
                      ![i].execution = MarkAsRunning(@),
                      ![i].persisted = IF writeOk THEN MarkAsRunning(calls[i].execution) ELSE @,
                      ![i].gpc = AfterRunningUpdate(RepoUpdate(writeOk))]
    /\ UNCHANGED <<schedVars, store, semaphore, runningJobs>>

\* a bug: the lookup result is not tested
ExecutorExists_Always(jobType) == TRUE

\* executor, exists := e.executors[job.JobType]
ExecutorExists(jobType) == jobType \in executors

\* the error executeJobWithContext returns after its final Update
FinalErr(updateErr, executionErr) ==
    IF updateErr # ErrNil THEN ErrUpdateStatus ELSE executionErr

\* executeJobWithContext: look the executor up.  Without one: MarkAsFailed,
\* Update (error logged), return the error.  With one: check the context,
\* then call executor.Execute(job)
GoDispatch(i) ==
    /\ calls[i].gpc = "dispatch"
    /\ IF ~ExecutorExists(calls[i].job.JobType)
       THEN \E writeOk \in WriteOutcomes :
              LET failed == MarkAsFailed(calls[i].execution, ErrNoExecutor)
              IN calls' = [calls EXCEPT
                             ![i].execution = failed,
                             ![i].persisted = IF writeOk THEN failed ELSE @,
                             ![i].errChan = ErrNoExecutor,
                             ![i].gpc = "finished"]
       ELSE IF calls[i].ctxDone
       THEN calls' = [calls EXCEPT ![i].executionErr = ErrContext, ![i].gpc = "result"]
       ELSE calls' = [calls EXCEPT ![i].executeCalls = @ + 1, ![i].gpc = "execute"]
    /\ UNCHANGED <<schedVars, store, semaphore, runningJobs>>

\* a bug: no recover around executor.Execute
RecoverDeferred_Missing == FALSE

\* the closure around executor.Execute defers a function that calls recover()
RecoverDeferred == TRUE

\* a bug: a capability that returned an error is called again
AfterExecute_Retry(outcome) == IF outcome = "error" THEN "dispatch" ELSE "result"

\* executeJobWithContext: whatever executor.Execute did, the function goes on
\* to mark the record by the result; there is no loop around the call
AfterExecute(outcome) == "result"

\* executor.Execute(job) returns nil, returns an error, or panics.  The
\* deferred recover turns the panic into an error; a panic nothing recovers
\* in this goroutine ends the process: the engine and the scheduler are gone
GoExecuteReturns(i) ==
    /\ calls[i].gpc = "execute"
    /\ \E outcome \in CapabilityOutcomes :
          IF outcome = "panic" /\ ~RecoverDeferred
          THEN /\ calls' = [calls EXCEPT ![i].gpc = "crashed", ![i].outcome = outcome]
               /\ isRunning' = FALSE
               /\ cronRunning' = FALSE
          ELSE /\ calls' = [calls EXCEPT ![i].executionErr = CapabilityErr(outcome),
                                         ![i].outcome = outcome,
                                         ![i].gpc = AfterExecute(outcome)]
               /\ UNCHANGED <<isRunning, cronRunning>>
    /\ UNCHANGED <<mu, stopPc, ctxCancelled, wg, scheduledJobs, cronEntries, nextID,
                   reloadPc, fetched, lastCall, store, faults, svc, mutators, listed,
                   semaphore, runningJobs>>

\* the record after the result of the capability is known
MarkResult(je, executionErr) ==
    IF executionErr # ErrNil THEN MarkAsFailed(je, executionErr) ELSE MarkAsCompleted(je)

\* executeJobWithContext: mark the record by the result, save it with Update,
\* return; the goroutine sends the error on errChan (buffered, never blocks)
GoResult(i) ==
    /\ calls[i].gpc = "result"
    /\ \E writeOk \in WriteOutcomes :
          LET final == MarkResult(calls[i].execution, calls[i].executionErr)
          IN calls' = [calls EXCEPT
                         ![i].execution = final,
                         ![i].persisted = IF writeOk THEN final ELSE @,
                         ![i].errChan = FinalErr(RepoUpdate(writeOk), calls[i].executionErr),
                         ![i].executionErr = ErrNil,
                         ![i].gpc = "finished"]
    /\ UNCHANGED <<schedVars, store, semaphore, runningJobs>>

\* ------------------------------------------------------------- job service
\* the expressions explored: a well-formed expression with one field replaced,
\* expressions of other lengths, free text, a descriptor, the empty string
FieldNumbers == {0, 1, 6, 7, 8, 12, 13, 23, 24, 25, 31, 32, 59, 60}
Fields == {Num(n) : n \in FieldNumbers} \cup {Star, StarStep(0), StarStep(5), Word}
EveryMinute == <<Star, Star, Star, Star, Star>>
Expressions ==
    {[base EXCEPT ![k] = f] : base \in {EveryMinute, GoodSchedule},
                              k \in 1..5, f \in Fields}
    \cup {<<>>, <<Star, Star, Star>>, <<Star, Star, Star, Star>>,
          <<Star, Star, Star, Star, Star, Star>>, <<Word, Word>>,
          <<Word, Word, Word>>, <<Descriptor>>, <<Star, Star, Star, Star, Descriptor>>}

\* jobService.ValidateCronSchedule: s.parser.Parse(schedule), the parser being
\* built by NewJobService for the five fields and without descriptors
ValidateCronSchedule(schedule) ==
    IF Parse(FALSE, schedule) THEN ErrNil ELSE ErrInvalidCronExpression

\* a call of ValidateCronSchedule through the JobService interface
ValidateCronScheduleCall ==
    \E schedule \in Expressions :
        /\ svc' = [SvcCall("ValidateCronSchedule") EXCEPT !.Schedule = schedule,
                                !.err = ValidateCronSchedule(schedule)]
        /\ UNCHANGED <<isRunning, mu, stopPc, ctxCancelled, wg, scheduledJobs, cronEntries,
                       cronRunning, nextID, reloadPc, fetched, store, lastCall, faults,
                       mutators, listed, execVars>>

\* a bug: every job type is taken for valid
IsValidJobType_Any(jobType) == TRUE

\* models.IsValidJobType
IsValidJobType(jobType) ==
    jobType \in {JobTypeEmailNotification, JobTypeDataProcessing,
                 JobTypeReportGeneration, JobTypeHealthCheck}

\* the requests explored
InvalidJobType == "invalid_type"
CreateJobRequests ==
    [Schedule : {GoodSchedule, BadSchedule, <<Word, Word>>, <<Descriptor>>},
     JobType : {JobTypeEmailNotification, InvalidJobType},
     IsActive : {"nil", "true", "false"}]

\* the job CreateJob builds from a request: active unless the request says not
JobOf(req, id) ==
    [ID |-> id, Schedule |-> req.Schedule, JobType |-> req.JobType,
     IsActive |-> req.IsActive # "false"]

\* uuid.New(): an identifier no row has; the least free one stands for any
NewID(id) == store[id] = NoJob /\ \A k \in JobIds : k < id => store[k] # NoJob

\* jobService.CreateJob: validate the job type, validate the schedule, build
\* the job with a new identifier and save it with jobRepo.Create
CreateJob ==
    \E req \in CreateJobRequests :
        LET call == [SvcCall("CreateJob") EXCEPT !.Schedule = req.Schedule,
                                  !.JobType = req.JobType, !.IsActive = req.IsActive]
        IN /\ IF ~IsValidJobType(req.JobType)
              THEN /\ svc' = [call EXCEPT !.err = ErrInvalidJobType]
                   /\ UNCHANGED store
              ELSE IF ValidateCronSchedule(req.Schedule) # ErrNil
              THEN /\ svc' = [call EXCEPT !.err = ErrInvalidCronSchedule]
                   /\ UNCHANGED store
              ELSE \E id \in {k \in JobIds : NewID(k)} : \E createOk \in BOOLEAN :
                      IF createOk
                      THEN /\ store' = [store EXCEPT ![id] = JobOf(req, id)]
                           /\ svc' = [call EXCEPT !.creates = 1, !.job = JobOf(req, id)]
                      ELSE /\ svc' = [call EXCEPT !.creates = 1, !.err = ErrCreateJob]
                           /\ UNCHANGED store
           /\ UNCHANGED <<isRunning, mu, stopPc, ctxCancelled, wg, scheduledJobs,
                          cronEntries, cronRunning, nextID, reloadPc, fetched, lastCall,
                          faults, mutators, listed, execVars>>

\* the paging defaults of GetAllJobs
DefaultPage == 1
DefaultLimit == 10
MaxLimit == 100

\* a bug: a limit above the maximum is passed on as it is
NormalLimit_NoMaximum(limit) == IF limit < 1 THEN DefaultLimit ELSE limit

\* GetAllJobs: if page < 1 { page = 1 }; if limit < 1 || limit > 100 { limit = 10 }
NormalPage(page) == IF page < 1 THEN DefaultPage ELSE page
NormalLimit(limit) == IF limit < 1 \/ limit > MaxLimit THEN DefaultLimit ELSE limit

\* int(math.Ceil(float64(totalCount) / float64(limit))) for totalCount >= 0
\* and limit > 0, both far below 2^53
CeilOfQuotient(totalCount, limit) ==
    IF totalCount % limit = 0 THEN totalCount \div limit ELSE (totalCount \div limit) + 1

\* the arguments explored, and the answers of the Count query of jobRepo.GetAll
Pages == {-1, 0, 1, 2}
Limits == {-5, 0, 1, 2, 10, 100, 101}
TotalCounts == {0, 1, 2, 3, 9, 10, 11, 20, 21, 100, 101, 201}

\* jobService.GetAllJobs: normalise page and limit, query jobRepo.GetAll with
\* them, and build the response; totalCount is the number of rows the jobs
\* table holds, those of identifiers not explored included
GetAllJobs ==
    \E page \in Pages : \E limit \in Limits :
        LET call == [SvcCall("GetAllJobs") EXCEPT !.page = page, !.limit = limit,
                                  !.queried = <<NormalPage(page), NormalLimit(limit)>>]
        IN /\ \/ svc' = [call EXCEPT !.err = ErrGetJobs]
              \/ \E totalCount \in TotalCounts :
                    /\ totalCount >= Cardinality({id \in JobIds : store[id] # NoJob})
                    /\ svc' = [call EXCEPT
                                 !.response = TRUE,
                                 !.TotalCount = totalCount,
                                 !.Page = NormalPage(page),
                                 !.Limit = NormalLimit(limit),
                                 !.TotalPages = CeilOfQuotient(totalCount, NormalLimit(limit))]
           /\ UNCHANGED <<isRunning, mu, stopPc, ctxCancelled, wg, scheduledJobs,
                          cronEntries, cronRunning, nextID, reloadPc, fetched, store,
                          lastCall, faults, mutators, listed, execVars>>

\* the method of the goroutine that is next to write the record, applied to je
GoroutineMark(i, je) ==
    CASE calls[i].gpc = "start" -> MarkAsRunning(je)
      [] calls[i].gpc = "dispatch" -> MarkAsFailed(je, ErrNoExecutor)
      [] calls[i].gpc = "result" -> MarkResult(je, calls[i].executionErr)

\* what the goroutine sends on errChan once that method and its Update are done
GoroutineSends(i, updateErr) ==
    CASE calls[i].gpc = "start" -> calls[i].errChan
      [] calls[i].gpc = "dispatch" -> ErrNoExecutor
      [] calls[i].gpc = "result" -> FinalErr(updateErr, calls[i].executionErr)

\* where the goroutine stands once that method and its Update are done
GoroutineNext(i, updateErr) ==
    IF calls[i].gpc = "start" THEN AfterRunningUpdate(updateErr) ELSE "finished"

\* ExecuteJob takes the ctx.Done() branch and calls execution.MarkAsFailed
\* while the goroutine, about to write the same record, calls its own Mark
\* method: the two run at the same time on the shared *JobExecution, and the
\* goroutine saves what results
WaitTimeoutRacing(i) ==
    /\ calls[i].pc = "wait"
    /\ DeadlineExpires
    /\ \/ calls[i].gpc \in {"start", "result"}
       \/ calls[i].gpc = "dispatch" /\ ~ExecutorExists(calls[i].job.JobType)
    /\ \E writeOk \in WriteOutcomes :
       \E je \in RacingMarks(calls[i].execution,
                              MarkAsFailed(calls[i].execution, ErrTimeout),
                              GoroutineMark(i, calls[i].execution)) :
          calls' = [calls EXCEPT
                      ![i].ctxDone = TRUE,
                      ![i].execution = je,
                      ![i].persisted = IF writeOk THEN je ELSE @,
                      ![i].errChan = GoroutineSends(i, RepoUpdate(writeOk)),
                      ![i].executionErr = ErrNil,
                      ![i].gpc = GoroutineNext(i, RepoUpdate(writeOk)),
                      ![i].pc = "timeout_update"]
    /\ UNCHANGED <<schedVars, store, semaphore, runningJobs>>

\* JobExecutor.GetRunningJobs: under e.mu.RLock(), a new slice with the
\* values of e.runningJobs, and these are the *JobExecution that ExecuteJob
\* stored.  refs are the pointers of the slice; seen is what each of them
\* showed when the slice was returned.  The query explored is the first one
GetRunningJobs ==
    /\ listed = NoList
    /\ runningJobs # {}
    /\ listed' = [op |-> "GetRunningJobs", refs |-> runningJobs,
                  seen |-> [i \in Calls |-> IF i \in runningJobs
                                            THEN calls[i].execution ELSE NoExecution]]
    /\ UNCHANGED <<isRunning, mu, stopPc, ctxCancelled, wg, scheduledJobs, cronEntries,
                   cronRunning, nextID, reloadPc, fetched, store, lastCall, faults, svc,
                   mutators, execVars>>

\* what the element of the returned slice for the execution i shows now:
\* the record the pointer refers to
Listed(i) == calls[i].execution

\* the scheduler with the executions it starts.  The callback and its
\* goroutine take their Mark methods as wholes here; their writes to the
\* record are taken one by one in NextExec, which leaves the callback and
\* the goroutine at the same statements with other contents of the record
Next ==
    \/ StoreChange
    \/ AddJob
    \/ RemoveJob
    \/ Start
    \/ Stop
    \/ StopJobsDone
    \/ StopReturn
    \/ ReloadExit
    \/ ReloadTick
    \/ ReloadApply
    \/ Fire
    \/ \E i \in Calls : Admit(i)
    \/ \E i \in Calls : Track(i)
    \/ \E i \in Calls : WaitResult(i)
    \/ \E i \in Calls : WaitTimeout(i)
    \/ \E i \in Calls : TimeoutUpdate(i)
    \/ \E i \in Calls : Untrack(i)
    \/ \E i \in Calls : Release(i)
    \/ \E i \in Calls : GoMarkRunning(i)
    \/ \E i \in Calls : GoDispatch(i)
    \/ \E i \in Calls : GoExecuteReturns(i)
    \/ \E i \in Calls : GoResult(i)

Spec == Init /\ [][Next]_vars

\* the executor on its own: the scheduler was started on an empty job store
\* and both definitions were added afterwards; the engine fires them
GoodJob(id) ==
    [ID |-> id, Schedule |-> GoodSchedule, JobType |-> KindOf(id), IsActive |-> TRUE]

InitExec ==
    /\ isRunning = TRUE
    /\ mu = "free"
    /\ stopPc = "idle"
    /\ ctxCancelled = FALSE
    /\ wg = 1
    /\ scheduledJobs = [id \in JobIds |-> id]
    /\ cronEntries = [e \in 1..MaxEntryID |->
                         IF e \in JobIds THEN [def |-> GoodJob(e), job |-> GoodJob(e)]
                         ELSE NoEntry]
    /\ cronRunning = TRUE
    /\ nextID = 2
    /\ reloadPc = "select"
    /\ fetched = {}
    /\ store = [id \in JobIds |-> GoodJob(id)]
    /\ lastCall = Returned("AddJob", ErrNil)
    /\ faults = TRUE
    /\ svc = NoSvc
    /\ mutators = [n \in Mutators |-> NoMutation]
    /\ listed = NoList
    /\ semaphore = 0
    /\ runningJobs = {}
    /\ calls = [i \in Calls |-> NoCall]

NextExec ==
    \/ Fire
    \/ \E i \in Calls : Admit(i)
    \/ \E i \in Calls : Track(i)
    \/ \E i \in Calls : WaitResult(i)
    \/ \E i \in Calls : WaitTimeout(i)
    \/ \E i \in Calls : WaitTimeoutRacing(i)
    \/ \E i \in Calls : TimeoutUpdate(i)
    \/ \E i \in Calls : Untrack(i)
    \/ \E i \in Calls : Release(i)
    \/ \E i \in Calls : GoMarkRunning(i)
    \/ \E i \in Calls : GoDispatch(i)
    \/ \E i \in Calls : GoExecuteReturns(i)
    \/ \E i \in Calls : GoResult(i)

SpecExec == InitExec /\ [][NextExec]_vars

\* the steps of ExecuteJob itself are taken when they can be: the timer of the
\* context fires, the store calls return, the deferred functions run.  Nothing
\* is assumed of the goroutine running the capability, which may never return
ExecuteJobFairness ==
    \A i \in Calls :
        /\ WF_vars(WaitResult(i))
        /\ WF_vars(WaitTimeout(i))
        /\ WF_vars(TimeoutUpdate(i))
        /\ WF_vars(Untrack(i))
        /\ WF_vars(Release(i))

SpecExecFair == SpecExec /\ ExecuteJobFairness

\* the scheduler's structural operations on their own: no trigger fires, so
\* no callback exists
InitTable ==
    /\ isRunning = FALSE
    /\ mu = "free"
    /\ stopPc = "idle"
    /\ ctxCancelled = FALSE
    /\ wg = 0
    /\ scheduledJobs = [id \in JobIds |-> 0]
    /\ cronEntries = [e \in 1..MaxEntryID |-> NoEntry]
    /\ cronRunning = FALSE
    /\ nextID = 0
    /\ reloadPc = "none"
    /\ fetched = {}
    /\ store = [id \in JobIds |-> NoJob]
    /\ lastCall = Returned("none", ErrNil)
    /\ faults = FALSE
    /\ svc = NoSvc
    /\ mutators = [n \in Mutators |-> NoMutation]
    /\ listed = NoList
    /\ semaphore = 0
    /\ runningJobs = {}
    /\ calls = [i \in Calls |-> UnusedCall]

NextTable ==
    \/ StoreChange
    \/ AddJob
    \/ RemoveJob
    \/ Start
    \/ Stop
    \/ StopJobsDone
    \/ StopReturn
    \/ ReloadExit
    \/ ReloadTick
    \/ ReloadApply

SpecTable == InitTable /\ [][NextTable]_vars

\* the job service on its own: the calls of the API, the scheduler stopped
NextService ==
    \/ CreateJob
    \/ GetAllJobs
    \/ ValidateCronScheduleCall

SpecService == InitTable /\ [][NextService]_vars

\* the methods that change the trigger table, run by three goroutines at
\* once, statement by statement
NextMutations ==
    \/ StoreChange
    \/ AddJobCall
    \/ AddJobLock
    \/ AddJobRemove
    \/ AddJobAdd
    \/ RemoveJobCall
    \/ RemoveJobLock
    \/ RemoveJobRemove
    \/ ReloadJobsFetch
    \/ ReloadJobsLogError
    \/ ReloadJobsLock
    \/ ReloadJobsRemoveMissing
    \/ ReloadJobsAddNext
    \/ \E n \in Mutators : Unlock(n)

SpecMutations == InitTable /\ [][NextMutations]_vars

\* the executor with a caller of its running-executions query
NextQuery ==
    \/ NextExec
    \/ GetRunningJobs

SpecQuery == InitExec /\ [][NextQuery]_vars

\* the state the executor is explored from is one the scheduler reaches
ExecStartUnreached ==
    ~(/\ isRunning /\ cronRunning /\ mu = "free" /\ ~ctxCancelled /\ wg = 1
      /\ reloadPc = "select" /\ scheduledJobs = [id \in JobIds |-> id]
      /\ \A id \in JobIds : cronEntries[id] = [def |-> GoodJob(id), job |-> GoodJob(id)]
      /\ nextID = 2 /\ semaphore = 0 /\ runningJobs = {})

TypeOK ==
    /\ isRunning \in BOOLEAN
    /\ mu \in {"free", "Start", "Stop"}
    /\ semaphore \in 0..MaxConcurrentJobs
    /\ runningJobs \subseteq Calls
    /\ wg \in 0..1

\* ------------------------------------------------------------------ claims
\* C1: in every reachable state the run tracker holds at most
\* MaxConcurrentJobs entries, whatever the interleaving of the ExecuteJob calls.
C1_TrackerWithinCapacity == Cardinality(runningJobs) <= MaxConcurrentJobs

\* the tracker is full while another firing is being turned away or admitted
C1_Witness ==
    /\ Cardinality(runningJobs) = MaxConcurrentJobs
    /\ \E i \in Calls : calls[i].pc = "admit"

C3_PanicIsContained ==
    \A i \in Calls :
        calls[i].outcome = "panic"
        => /\ calls[i].gpc \in {"result", "finished"}
           /\ calls[i].gpc = "finished"
                => /\ calls[i].execution.Status = ExecutionStatusFailed
                   /\ calls[i].execution.ErrorMessage # ""
           /\ calls[i].pc = "done" => calls[i].ret \notin {"pending", ErrNil}
           /\ isRunning
           /\ cronRunning
           /\ (\E k \in Calls : calls[k].pc = "none") => ENABLED Fire

\* a callback whose capability panicked has returned and the engine can fire
\* the next trigger
C3_Witness ==
    \E i, k \in Calls :
        /\ calls[i].outcome = "panic"
        /\ calls[i].pc = "done"
        /\ calls[i].execution.ErrorMessage = ErrPanicked
        /\ calls[k].pc = "none"
        /\ ENABLED Fire

\* C4: every execution record that was created reaches exactly one terminal
\* state (a terminal status is never replaced by another status), and when its
\* ExecuteJob call returns the record is in a terminal state.
C4_ExactlyOneTerminalState ==
    [][\A i \in Calls :
          /\ IsCompleted(calls[i].execution)
                => calls'[i].execution.Status = calls[i].execution.Status
          /\ (calls'[i].pc = "done" /\ calls'[i].persisted # NoExecution)
                => IsCompleted(calls'[i].execution)]_vars

\* C5: once the status of a record is completed, failed or cancelled it never
\* changes again, in memory or in the persisted copy.
C5_TerminalStatusIsFinal ==
    [][\A i \in Calls :
          /\ calls[i].execution.Status \in TerminalStatuses
                => calls'[i].execution.Status = calls[i].execution.Status
          /\ calls[i].persisted.Status \in TerminalStatuses
                => calls'[i].persisted.Status = calls[i].persisted.Status]_vars

\* the calls holding a permit, and the calls with a tracker entry
HoldsPermit(i) == calls[i].pc \in {"track", "wait", "timeout_update", "untrack", "release"}
IsTracked(i) == calls[i].pc \in {"wait", "timeout_update", "untrack"}

\* C6: a permit is held and a tracker entry exists only for calls in progress:
\* a call that has returned holds neither, on whichever path it returned, so
\* with no call in progress the tracker is empty and all permits are free.
C6_CleanupOnEveryExit ==
    /\ semaphore = Cardinality({i \in Calls : HoldsPermit(i)})
    /\ runningJobs = {i \in Calls : IsTracked(i)}
    /\ (\A i \in Calls : ~CallbackRunning(i))
          => (runningJobs = {} /\ semaphore = 0)

\* both calls have returned, one after its record could not be created and one
\* after the deadline, and nothing is held
C6_Witness ==
    /\ \A i \in Calls : calls[i].pc = "done"
    /\ \E i \in Calls : calls[i].ret = ErrCreate
    /\ \E i \in Calls : calls[i].ret = ErrTimeout
    /\ runningJobs = {}
    /\ semaphore = 0

\* C7: Start on a stopped scheduler whose job store returns active definitions
\* returns: Start is never left waiting, inside loadActiveJobs, for the lock
\* it holds itself.
C7_StartReturns == mu # "Start"

CallbackBegins == \E i \in Calls : calls[i].pc = "none" /\ calls'[i].pc # "none"

\* C9: Stop returns only when no trigger callback is executing; no callback
\* begins once Stop has stopped the engine nor while the scheduler is stopped;
\* and no step of Stop touches an execution.
C9_StopWaitsForCallbacks ==
    [][/\ (isRunning /\ ~isRunning') => \A i \in Calls : ~CallbackRunning(i)
       /\ CallbackBegins => (isRunning /\ cronRunning /\ stopPc = "idle")
       /\ (Stop \/ StopJobsDone \/ StopReturn) => calls' = calls]_vars

\* Stop has returned after a callback that ran into its deadline, and the
\* capability that callback abandoned is still executing
C9_Witness ==
    /\ lastCall = Returned("Stop", ErrNil)
    /\ ~isRunning
    /\ ctxCancelled
    /\ \E i \in Calls :
          /\ calls[i].pc = "done"
          /\ calls[i].ret = ErrTimeout
          /\ calls[i].gpc = "execute"

\* C10: Stop on a scheduler that is not running returns nil and changes
\* nothing else.
C10_StopWhenStoppedIsNoOp ==
    [][(Stop /\ ~isRunning)
          => /\ lastCall' = Returned("Stop", ErrNil)
             /\ UNCHANGED <<isRunning, mu, stopPc, ctxCancelled, wg, scheduledJobs,
                            cronEntries, cronRunning, nextID, reloadPc, fetched,
                            store, faults, svc, mutators, listed, semaphore, runningJobs, calls>>]_vars

\* Stop returned nil on a scheduler that was never started and has a trigger
C10_Witness ==
    /\ lastCall = Returned("Stop", ErrNil)
    /\ ~isRunning
    /\ ~ctxCancelled
    /\ \E id \in JobIds : scheduledJobs[id] # 0

\* the live registrations of the engine made for a job identifier
LiveRegistrations(id) == {e \in 1..MaxEntryID : cronEntries[e].def.ID = id}

\* C11: AddJob with an active job whose rule parses returns nil and leaves
\* exactly one live registration for the job's identifier, the one the table
\* refers to, made for the job just passed; a registration that existed for
\* the identifier before the call is gone.
C11_AddLeavesOneRegistration ==
    [][\A job \in Definitions :
          (AddJobOf(job) /\ job.IsActive /\ ParseStandard(job.Schedule))
          => /\ Cardinality({e \in 1..MaxEntryID : cronEntries'[e].def.ID = job.ID}) = 1
             /\ scheduledJobs'[job.ID] # 0
             /\ cronEntries'[scheduledJobs'[job.ID]] = [def |-> job, job |-> job]
             /\ scheduledJobs[job.ID] # 0
                   => /\ scheduledJobs'[job.ID] # scheduledJobs[job.ID]
                      /\ cronEntries'[scheduledJobs[job.ID]] = NoEntry
             /\ lastCall' = Returned("AddJob", ErrNil)]_vars

\* on a scheduler never started a job was added after the first registration
\* of the engine had been made and removed: it has the second registration
\* and the first is gone
C11_Witness ==
    /\ lastCall = Returned("AddJob", ErrNil)
    /\ ~isRunning /\ ~ctxCancelled /\ mu = "free"
    /\ \E id \in JobIds :
          /\ scheduledJobs[id] = 2
          /\ cronEntries[1] = NoEntry
          /\ LiveRegistrations(id) = {2}
          /\ \A k \in JobIds \ {id} : scheduledJobs[k] = 0

\* C12 as stated: AddJob with an active job whose rule does not parse returns
\* the add error and leaves the trigger table and the engine's registrations
\* as they were, also when the identifier already had a trigger.
C12_InvalidAddChangesNothing ==
    [][\A job \in Definitions :
          (AddJobOf(job) /\ job.IsActive /\ ~ParseStandard(job.Schedule))
          => /\ lastCall' = Returned("AddJob", ErrAddJob)
             /\ UNCHANGED <<scheduledJobs, cronEntries, nextID>>]_vars

\* C12 amended: AddJob with an active job whose rule does not parse returns
\* the add error and registers nothing; the table and the registrations are
\* as they were when the identifier had no trigger, and when it had one that
\* trigger, and only that, has been removed.
C12_InvalidAddRemovesOldTrigger ==
    [][\A job \in Definitions :
          (AddJobOf(job) /\ job.IsActive /\ ~ParseStandard(job.Schedule))
          => /\ lastCall' = Returned("AddJob", ErrAddJob)
             /\ nextID' = nextID
             /\ scheduledJobs'[job.ID] = 0
             /\ LiveRegistrations(job.ID)' = {}
             /\ \A k \in JobIds \ {job.ID} : scheduledJobs'[k] = scheduledJobs[k]
             /\ \A e \in 1..MaxEntryID :
                   e # scheduledJobs[job.ID] => cronEntries'[e] = cronEntries[e]
             /\ scheduledJobs[job.ID] = 0
                   => UNCHANGED <<scheduledJobs, cronEntries, nextID>>]_vars

\* an add with a malformed rule was refused on a scheduler never started:
\* the identifier has no trigger, the second registration of the engine is
\* gone and the trigger of the other identifier is in place
C12_Witness ==
    /\ lastCall = Returned("AddJob", ErrAddJob)
    /\ ~isRunning /\ ~ctxCancelled /\ mu = "free"
    /\ nextID = 2
    /\ scheduledJobs = [id \in JobIds |-> IF id = 1 THEN 1 ELSE 0]
    /\ cronEntries[1] # NoEntry
    /\ cronEntries[2] = NoEntry

\* C13: AddJob with a job that is not active returns nil and changes nothing:
\* no registration is made and a trigger the identifier already has stays,
\* with the same entry of the engine.
C13_InactiveAddChangesNothing ==
    [][\A job \in Definitions :
          (AddJobOf(job) /\ ~job.IsActive)
          => /\ lastCall' = Returned("AddJob", ErrNil)
             /\ UNCHANGED <<isRunning, mu, stopPc, ctxCancelled, wg, scheduledJobs,
                            cronEntries, cronRunning, nextID, reloadPc, fetched,
                            store, faults, svc, mutators, listed, semaphore, runningJobs, calls>>]_vars

\* AddJob has returned nil and the engine has never made a registration: the
\* job passed was not active
C13_Witness ==
    /\ lastCall = Returned("AddJob", ErrNil)
    /\ nextID = 0
    /\ \A e \in 1..MaxEntryID : cronEntries[e] = NoEntry
    /\ \A id \in JobIds : scheduledJobs[id] = 0

\* C14: RemoveJob of an identifier that has a trigger deletes the table key and
\* the engine's entry; of an identifier that has none it changes nothing; in
\* both cases the keys and entries of all other identifiers, and everything
\* else, stay as they were.
C14_RemoveOnlyThatTrigger ==
    [][\A id \in JobIds :
          RemoveJobOf(id)
          => /\ scheduledJobs'[id] = 0
             /\ LiveRegistrations(id)' = {}
             /\ \A k \in JobIds \ {id} : scheduledJobs'[k] = scheduledJobs[k]
             /\ \A e \in 1..MaxEntryID :
                   e # scheduledJobs[id] => cronEntries'[e] = cronEntries[e]
             /\ scheduledJobs[id] = 0 => cronEntries' = cronEntries
             /\ UNCHANGED <<isRunning, mu, stopPc, ctxCancelled, wg, cronRunning,
                            nextID, reloadPc, fetched, store, faults, svc, mutators, listed, lastCall,
                            semaphore, runningJobs, calls>>]_vars

\* on a scheduler never started both identifiers were given a trigger and the
\* first was removed: its key and its entry are gone, the other's are in place
C14_Witness ==
    /\ ~isRunning /\ ~ctxCancelled /\ mu = "free"
    /\ lastCall = Returned("AddJob", ErrNil)
    /\ nextID = 2
    /\ scheduledJobs = [id \in JobIds |-> IF id = 2 THEN 2 ELSE 0]
    /\ cronEntries[1] = NoEntry
    /\ cronEntries[2].def.ID = 2

\* C15: in every reachable state each job identifier has at most one live
\* registration in the engine, every key of the trigger table refers to a live
\* registration made for that identifier, and every live registration is the
\* one the table holds for its identifier.
C15_TableMatchesEngine ==
    /\ \A id \in JobIds : Cardinality(LiveRegistrations(id)) <= 1
    /\ \A id \in JobIds :
          scheduledJobs[id] # 0
          => /\ scheduledJobs[id] <= nextID
             /\ cronEntries[scheduledJobs[id]].def.ID = id
    /\ \A e \in 1..MaxEntryID :
          cronEntries[e] # NoEntry
          => /\ cronEntries[e].def.ID \in JobIds
             /\ scheduledJobs[cronEntries[e].def.ID] = e

\* a scheduler that was started and stopped holds a trigger for each of the
\* two identifiers after three registrations: one of them was replaced
C15_Witness ==
    /\ ~isRunning /\ ctxCancelled /\ mu = "free"
    /\ nextID = 3
    /\ \A id \in JobIds : Cardinality(LiveRegistrations(id)) = 1
    /\ \E e \in 1..MaxEntryID : cronEntries[e] = NoEntry /\ e < nextID

\* the identifiers a reconcile has to leave with a trigger: the active
\* definitions GetActiveJobs returned to it whose rule parses
Wanted == {j \in fetched : j.IsActive /\ ParseStandard(j.Schedule)}

\* C16: when reloadJobs returns after a successful fetch, the identifiers with
\* a trigger are exactly those of the fetched active definitions whose rule
\* parses; each has one live registration, made for the fetched definition,
\* and every other identifier has none.
C16_ReconcileMatchesStore ==
    [][ReloadApply
          => /\ {id \in JobIds : scheduledJobs'[id] # 0} = {j.ID : j \in Wanted}
             /\ \A j \in Wanted :
                   /\ LiveRegistrations(j.ID)' = {scheduledJobs'[j.ID]}
                   /\ cronEntries'[scheduledJobs'[j.ID]].def = j
             /\ \A id \in JobIds \ {j.ID : j \in Wanted} : LiveRegistrations(id)' = {}]_vars

\* a reconcile has registered the two active definitions of the store in one
\* batch (both callbacks hold the address of the one loop variable, which only
\* reloadJobs produces): each identifier has its trigger, made for its row
C16_Witness ==
    /\ isRunning /\ ~ctxCancelled /\ mu = "free"
    /\ reloadPc = "select"
    /\ \A id \in JobIds :
          /\ store[id] # NoJob
          /\ scheduledJobs[id] # 0
          /\ cronEntries[scheduledJobs[id]].def = store[id]
          /\ cronEntries[scheduledJobs[id]].job.ID = 2

\* C17: while the scheduler is Running (and no Stop is under way) the
\* reconciliation loop is alive, waiting for its next tick or applying one, so
\* that a later change of the store can still be reflected.
C17_RunningSchedulerReconciles ==
    (isRunning /\ stopPc = "idle") => reloadPc \in {"select", "lock"}

\* C18: the job a trigger callback executes when it begins is the definition
\* its trigger was registered for: some live registration was made for
\* exactly that job, also when the registration was made by a reconcile that
\* handled other definitions in the same batch.
C18_FiringExecutesItsDefinition ==
    [][\A i \in Calls :
          (calls[i].pc = "none" /\ calls'[i].pc = "admit")
          => \E e \in 1..MaxEntryID :
                /\ cronEntries[e] # NoEntry
                /\ cronEntries[e].job = calls'[i].job
                /\ cronEntries[e].def = calls'[i].job]_vars

\* the record as the timeout branch of ExecuteJob leaves it
TimedOut(je) ==
    /\ je.Status = ExecutionStatusFailed
    /\ je.ErrorMessage = ErrTimeout
    /\ je.CompletedAt

\* C19: a call waiting for its goroutine always comes to return, whether or not
\* the capability ever returns; the step that stops waiting at the deadline
\* while the capability is executing marks the record failed with the timeout
\* message, and every deadline step leads to the timeout error; and a call
\* that has returned the timeout error has no tracker entry, holds no permit,
\* and, while its capability is still executing, its record is failed with
\* the timeout message.
C19_TimeoutReturns ==
    /\ \A i \in Calls : (calls[i].pc = "wait") ~> (calls[i].pc = "done")
    /\ [][\A i \in Calls :
             /\ (calls[i].pc = "wait" /\ calls[i].gpc = "execute"
                    /\ calls'[i].pc = "timeout_update")
                   => TimedOut(calls'[i].execution)
             /\ (calls[i].pc = "timeout_update" /\ calls'[i].pc # "timeout_update")
                   => calls'[i].ret = ErrTimeout]_vars
    /\ [](\A i \in Calls :
             (calls[i].pc = "done" /\ calls[i].ret = ErrTimeout)
             => /\ i \notin runningJobs
                /\ semaphore <= Cardinality({k \in Calls \ {i} : CallbackRunning(k)})
                /\ calls[i].gpc = "execute" => TimedOut(calls[i].execution))

\* a call has returned the timeout error, its capability is still executing,
\* the record is failed with the timeout message and nothing is held
C19_Witness ==
    \E i \in Calls :
        /\ calls[i].pc = "done"
        /\ calls[i].ret = ErrTimeout
        /\ calls[i].gpc = "execute"
        /\ TimedOut(calls[i].execution)
        /\ runningJobs = {}
        /\ semaphore = 0

\* the call was started for a job whose kind has no registered capability
UnknownKind(i) ==
    /\ calls[i].pc \notin {"none", "unused"}
    /\ calls[i].job.JobType \notin executors

\* C20: for a job whose kind has no registered capability, Execute is never
\* called; once the goroutine has finished the record is failed, with the
\* no-executor message unless the deadline branch has overwritten it; and
\* ExecuteJob, when it returns what the goroutine sent, returns the
\* no-executor error with the record failed with that message.
C20_UnknownKindFails ==
    \A i \in Calls :
        UnknownKind(i)
        => /\ calls[i].executeCalls = 0
           /\ calls[i].outcome = "none"
           /\ calls[i].gpc \in {"none", "start", "dispatch", "finished"}
           /\ calls[i].gpc = "finished"
                 => /\ calls[i].execution.Status = ExecutionStatusFailed
                    /\ calls[i].execution.ErrorMessage \in {ErrNoExecutor, ErrTimeout}
                    /\ ~calls[i].ctxDone => calls[i].execution.ErrorMessage = ErrNoExecutor
           /\ (calls[i].pc = "done" /\ calls[i].ret \notin {ErrLimit, ErrCreate, ErrTimeout})
                 => /\ calls[i].ret = ErrNoExecutor
                    /\ calls[i].execution.Status = ExecutionStatusFailed
                    /\ calls[i].execution.ErrorMessage = ErrNoExecutor

\* a call for a job of no registered kind has returned the no-executor error;
\* its record is failed with that message, in memory and in the store, and
\* Execute was not called
C20_Witness ==
    \E i \in Calls :
        /\ UnknownKind(i)
        /\ calls[i].pc = "done"
        /\ calls[i].ret = ErrNoExecutor
        /\ calls[i].execution.Status = ExecutionStatusFailed
        /\ calls[i].execution.ErrorMessage = ErrNoExecutor
        /\ calls[i].persisted = calls[i].execution
        /\ calls[i].executeCalls = 0

\* the call was started for a job whose kind has a registered capability
RegisteredKind(i) ==
    /\ calls[i].pc \notin {"none", "unused"}
    /\ calls[i].job.JobType \in executors

TriggerRemains(i) ==
    \E e \in 1..MaxEntryID :
        /\ cronEntries[e].job = calls[i].job
        /\ scheduledJobs[cronEntries[e].def.ID] = e

\* C22: whatever the outcome of an execution (rejection, store failure, unknown
\* kind, capability error, panic, timeout), no step of a trigger callback or of
\* its goroutine changes the scheduler, the engine or the trigger table; the
\* goroutine never ends the process; and when the callback has returned the
\* scheduler is Running, the engine is started and the trigger that fired is
\* registered as before.
C22_OutcomesStayInsideCallback ==
    /\ [][(calls' # calls)
             => UNCHANGED <<isRunning, mu, stopPc, ctxCancelled, wg, scheduledJobs,
                            cronEntries, cronRunning, nextID, reloadPc, lastCall>>]_vars
    /\ [](\A i \in Calls :
             /\ calls[i].gpc # "crashed"
             /\ calls[i].pc = "done"
                   => (isRunning /\ cronRunning /\ EngineFires /\ TriggerRemains(i)))

\* two callbacks have returned, one turned away by the gate and one whose
\* capability panicked; the scheduler is Running and both triggers are in place
C22_Witness ==
    /\ \E i, k \in Calls :
          /\ calls[i].pc = "done" /\ calls[i].ret = ErrLimit
          /\ calls[k].pc = "done" /\ calls[k].outcome = "panic"
          /\ calls[k].ret \notin {ErrNil, "pending"}
          /\ TriggerRemains(i) /\ TriggerRemains(k)
    /\ isRunning /\ cronRunning
    /\ \A id \in JobIds : scheduledJobs[id] # 0

RequestTypeInvalid ==
    svc.JobType \notin {JobTypeEmailNotification, JobTypeDataProcessing,
                        JobTypeReportGeneration, JobTypeHealthCheck}

\* C24: CreateJob with a job type that is none of the four returns the
\* invalid-job-type error, and with a valid type and a schedule the service's
\* parser rejects it returns the invalid-cron-schedule error; in both cases
\* the job returned is nil, jobRepo.Create is not called and the job store is
\* as it was.
C24_InvalidRequestNotPersisted ==
    /\ [](svc.op = "CreateJob"
            => /\ RequestTypeInvalid
                     => (svc.err = ErrInvalidJobType /\ svc.job = NoJob /\ svc.creates = 0)
               /\ (~RequestTypeInvalid /\ ~Parse(FALSE, svc.Schedule))
                     => (svc.err = ErrInvalidCronSchedule /\ svc.job = NoJob /\ svc.creates = 0))
    /\ [][(svc'.op = "CreateJob" /\ svc'.err \in {ErrInvalidJobType, ErrInvalidCronSchedule})
             => store' = store]_vars

\* a request with a malformed schedule was refused after an earlier request
\* had been saved: the store holds that one row only
C24_Witness ==
    /\ svc.op = "CreateJob"
    /\ svc.Schedule = BadSchedule
    /\ svc.JobType = JobTypeEmailNotification
    /\ svc.err = ErrInvalidCronSchedule
    /\ svc.job = NoJob
    /\ svc.creates = 0
    /\ store[1] # NoJob
    /\ store[2] = NoJob

\* C25: GetAllJobs queries the repository with the normalised arguments: the
\* page as given when it is 1 or more and 1 otherwise, the limit as given when
\* it lies in 1..100 and 10 otherwise; a response reports that page and
\* that limit, and its TotalPages is the least number of pages of that limit
\* holding TotalCount rows (0 when TotalCount is 0).
C25_PagingNormalised ==
    svc.op = "GetAllJobs"
    => /\ svc.queried = <<IF svc.page >= 1 THEN svc.page ELSE 1,
                          IF svc.limit >= 1 /\ svc.limit <= 100 THEN svc.limit ELSE 10>>
       /\ svc.response
             => /\ svc.err = ErrNil
                /\ svc.Page = svc.queried[1]
                /\ svc.Limit = svc.queried[2]
                /\ svc.TotalPages >= 0
                /\ svc.TotalPages * svc.Limit >= svc.TotalCount
                /\ (svc.TotalPages - 1) * svc.Limit < svc.TotalCount
                /\ svc.TotalCount = 0 => svc.TotalPages = 0
       /\ ~svc.response => svc.err = ErrGetJobs

\* GetAllJobs(0, -5) on a table of 21 rows queried page 1 with limit 10 and
\* reported three pages
C25_Witness ==
    /\ svc.op = "GetAllJobs"
    /\ svc.page = 0 /\ svc.limit = -5
    /\ svc.queried = <<1, 10>>
    /\ svc.response
    /\ svc.Page = 1 /\ svc.Limit = 10
    /\ svc.TotalCount = 21 /\ svc.TotalPages = 3

\* the values a numeric field may take: minute, hour, day-of-month, month,
\* day-of-week
FieldRange == <<0..59, 0..23, 1..31, 1..12, 0..6>>

\* field k of an expression is "*", "*/n" with a positive step, or a number
\* within the range of the field
WithinRange(field, k) ==
    \/ field = Star
    \/ \E n \in 1..59 : field = StarStep(n)
    \/ \E n \in FieldRange[k] : field = Num(n)

C27_StatusOrder ==
    [][\A i \in Calls :
          /\ i \in runningJobs' => calls'[i].persisted # NoExecution
          /\ calls'[i].executeCalls > calls[i].executeCalls
                => (calls[i].execution.StartedAt /\ calls[i].execution.Status # ExecutionStatusPending)
          /\ calls[i].execution.Status = ExecutionStatusRunning
                => calls'[i].execution.Status # ExecutionStatusPending
          /\ calls[i].execution.Status \in TerminalStatuses
                => calls'[i].execution.Status # ExecutionStatusRunning]_vars

\* the record je has its duration exactly when it has a start time and a
\* terminal status
DurationMatches(je) ==
    je.ExecutionDuration <=> (je.StartedAt /\ IsCompleted(je))

\* C28: every execution record, in memory and as persisted, has its duration
\* populated if and only if its start time is recorded and its status is
\* terminal; a record that timed out before it was marked running has neither.
C28_DurationIffStartedAndTerminal ==
    \A i \in Calls :
        /\ calls[i].execution # NoExecution => DurationMatches(calls[i].execution)
        /\ calls[i].persisted # NoExecution => DurationMatches(calls[i].persisted)

\* C29: when ExecuteJob returns what its goroutine sent and the capability had
\* returned without error, ExecuteJob returns no error and the record in
\* memory is completed, whether or not the final save of the record succeeded.
C29_ReturnsInMemoryOutcome ==
    [][\A i \in Calls :
          (calls[i].pc = "wait" /\ calls'[i].pc = "untrack" /\ calls[i].outcome = "ok")
          => /\ calls'[i].ret = ErrNil
             /\ calls'[i].execution.Status = ExecutionStatusCompleted]_vars

\* the methods inside their locked part: s.mu.Lock() has returned and the
\* deferred s.mu.Unlock() has not run
Inside == {n \in Mutators : mutators[n].pc \in {"remove", "add", "unlock"}}

\* the table the method run r leaves when nothing else runs between its
\* s.mu.Lock() and its s.mu.Unlock(): the whole method applied to the table
\* its Lock found
SerialResult(n, r) ==
    CASE n = "AddJob" -> IF SkipsInactive(r.job) THEN r.atLock
                         ELSE Reschedule(r.atLock, r.job, r.job)
      [] n = "RemoveJob" -> RemoveExisting(r.atLock, r.id)
      [] n = "reloadJobs" ->
            AddOrUpdate(RemoveMissing(r.atLock, JobIds, {j.ID : j \in r.jobs}),
                        r.jobs, r.jobs, r.build)

\* C30: at no time are two of AddJob, RemoveJob and reloadJobs inside their
\* locked part, and when one of them comes to unlock, the table and the
\* engine's registrations are what that whole method makes of the table it
\* found at its lock: the table is the one the methods produce one after the
\* other, in the order of their locks.
C30_MutationsSerialised ==
    /\ Cardinality(Inside) <= 1
    /\ \A n \in Mutators :
          mutators[n].pc = "unlock" => Table = SerialResult(n, mutators[n])

\* reloadJobs has changed the table and stands at its unlock while AddJob and
\* RemoveJob, both called meanwhile, wait at their s.mu.Lock()
C30_Witness ==
    /\ mutators["reloadJobs"].pc = "unlock"
    /\ Table # mutators["reloadJobs"].atLock
    /\ mutators["reloadJobs"].atLock # EmptyTable
    /\ mutators["AddJob"].pc = "lock"
    /\ mutators["AddJob"].job.IsActive
    /\ mutators["RemoveJob"].pc = "lock"
    /\ scheduledJobs[mutators["RemoveJob"].id] # 0

\* C31: every record of the list GetRunningJobs returned shows, at any later
\* time, what it showed when the list was returned, whatever the executions
\* do afterwards.
C31_ListIsSnapshot ==
    listed # NoList
    => \A i \in listed.refs : Listed(i) = listed.seen[i]

\* C32: while Stop is waiting (for the callbacks, then for the reload loop),
\* Stop or the reload loop can take a step: the callbacks having returned,
\* Stop goes on or returns, or the loop sees the cancellation and exits; the
\* two never wait for each other.
C32_StopAndReloadNeverBlock ==
    (stopPc # "idle" /\ CronJobsDone)
    => ENABLED (StopJobsDone \/ StopReturn \/ ReloadExit \/ ReloadApply)

\* C33: the reconciliation loop of a scheduler that is Running, restarted or
\* not, ends only for a Stop: whenever the loop returns, a Stop is under way.
C33_LoopEndsOnlyForStop ==
    [][(reloadPc = "select" /\ reloadPc' = "none") => stopPc # "idle"]_vars

\* C34: when reloadJobs has done its work and comes to return, no other
\* method being run, an id whose trigger RemoveJob has removed since the
\* jobs were fetched, and that the job store does not list as active, has
\* no trigger and no registration.
C34_ReloadDoesNotResurrect ==
    LET r == mutators["reloadJobs"]
    IN (/\ r.pc = "unlock"
        /\ mutators["AddJob"].pc = "idle"
        /\ mutators["RemoveJob"].pc = "idle")
       => \A id \in r.removed :
             store[id] = NoJob
             => /\ scheduledJobs[id] = 0
                /\ \A e \in 1..MaxEntryID :
                      cronEntries[e] # NoEntry => cronEntries[e].def.ID # id

\* the executions whose capability has been called and has not returned
Executing == {i \in Calls : calls[i].gpc = "execute"}

\* C35: at no time are more than MaxConcurrentJobs calls of a capability's
\* Execute in progress, also after executions have timed out and given their
\* permits back.
C35_ExecutingWithinCapacity == Cardinality(Executing) <= MaxConcurrentJobs

\* C36: when the job store fails during a reconcile, the failing fetch and the
\* loop's handling of the error leave the Trigger Table, the timer
\* registrations and the lock exactly as they were, and the loop is back at
\* its select afterwards, ready for the next tick, never ended.
C36_FailedReloadChangesNothing ==
    [][LET r == mutators["reloadJobs"]
           r2 == mutators'["reloadJobs"]
       IN /\ (r.pc = "idle" /\ r2.pc = "failed")
                => UNCHANGED <<scheduledJobs, cronEntries, nextID, mu>>
          /\ (r.pc = "failed" /\ r2.pc # "failed")
                => /\ UNCHANGED <<scheduledJobs, cronEntries, nextID, mu>>
                   /\ r2.pc = "idle"
          /\ r.pc = "failed" => mu # "reloadJobs"]_vars

\* a failed fetch while triggers are installed
C36_Witness ==
    /\ mutators["reloadJobs"].pc = "failed"
    /\ \E id \in JobIds : /\ scheduledJobs[id] # 0
                          /\ \E e \in DOMAIN cronEntries : cronEntries[e].def.ID = id

\* C37: a start() whose load of the active jobs fails returns the error and
\* changes nothing else: the scheduler stays Stopped, the timer engine is not
\* started, no reconciliation loop is spawned, the Trigger Table and the
\* registrations are as before and the lock is free again; from then on
\* start() is not refused, and it succeeds once the store answers (shown here
\* for a store without active jobs; a store with active jobs is the case of
\* C7).
C37_FailedStartLeavesStopped ==
    /\ [][(lastCall' # lastCall /\ lastCall' = Returned("Start", ErrLoadActiveJobs))
            => /\ ~isRunning' /\ ~cronRunning' /\ mu' = "free"
               /\ UNCHANGED <<isRunning, cronRunning, wg, reloadPc, mu,
                              scheduledJobs, cronEntries, nextID>>]_vars
    /\ [](lastCall = Returned("Start", ErrLoadActiveJobs)
            => /\ ~isRunning /\ ~cronRunning /\ ~StartRefused
               /\ (mu = "free" /\ GetActiveJobs = {})
                     => ENABLED (Start /\ isRunning' /\ cronRunning'
                                       /\ reloadPc' = "select"))

\* start() has failed on the store while a trigger is installed
C37_Witness ==
    /\ lastCall = Returned("Start", ErrLoadActiveJobs)
    /\ ~isRunning
    /\ \E id \in JobIds : scheduledJobs[id] # 0

\* the active definitions of a batch whose recurrence rule does not parse
Malformed(jobs) == {j \in jobs : j.IsActive /\ ~ParseStandard(j.Schedule)}

\* what the batch has to leave behind: a trigger for each active definition
\* whose rule parses, made for that definition, and none for a malformed one
BatchScheduled(jobs) ==
    /\ \A j \in jobs \ Malformed(jobs) :
          j.IsActive => /\ scheduledJobs'[j.ID] # 0
                        /\ cronEntries'[scheduledJobs'[j.ID]].def = j
    /\ \A j \in Malformed(jobs) : /\ scheduledJobs'[j.ID] = 0
                                  /\ LiveRegistrations(j.ID)' = {}

\* C38: a batch with a malformed definition loaded by Start or by reloadJobs
\* is carried through: the step that loads it ends the operation with
\* success, every other active definition of the batch has its trigger and
\* the malformed one has none.
C38_MalformedDoesNotStopBatch ==
    [][/\ (reloadPc = "lock" /\ reloadPc' # "lock" /\ Malformed(fetched) # {})
            => /\ reloadPc' = "select"
               /\ BatchScheduled(fetched)
       /\ (mu = "free" /\ stopPc = "idle" /\ ~isRunning
             /\ Malformed(GetActiveJobs) # {}
             /\ (mu' = "Start" \/ (lastCall' # lastCall /\ lastCall'.op = "Start"
                                     /\ lastCall'.err # ErrLoadActiveJobs)))
            => /\ lastCall' = Returned("Start", ErrNil)
               /\ isRunning'
               /\ BatchScheduled(GetActiveJobs)]_vars

\* C39: Update returns success when its write succeeded on the existing row:
\* when the final save of an execution has written the record that ExecuteJob
\* created (and is still waiting for), the goroutine reports the result of the
\* capability and never a failed update.
C39_UpdateSucceedsOnExistingRow ==
    [][\A i \in Calls :
          (/\ calls[i].gpc = "result" /\ calls'[i].gpc = "finished"
           /\ calls[i].pc = "wait" /\ calls'[i].pc = "wait"
           /\ calls'[i].persisted = calls'[i].execution
           /\ calls'[i].persisted # calls[i].persisted)
          => calls'[i].errChan # ErrUpdateStatus]_vars

====
